---- MODULE Spec2Model ----
(***************************************************************************)
(* Model of the carbon footprint tracker: the streak store of functions.py *)
(* (load_streak_dates, save_new_log, calculate_longest_streak,             *)
(* calculate_current_streak), the log_action handler of app.py and the     *)
(* diet / savings calculators.                                             *)
(*                                                                         *)
(* A Python str is a sequence of character codes ("-" is 45, "0" is 48),   *)
(* a datetime.date is a record [year, month, day].                         *)
(***************************************************************************)
EXTENDS Integers, Sequences, FiniteSets, TLC

(* ------------------------------ bounds --------------------------------- *)

\* number of calendar days the clock can show, starting at StartDay
MaxDays == 6

\* longest logged_dates sequence of an arbitrary initial store / input list
MaxLen == 3

\* largest meal count tried besides the default
MaxMeals == 3

\* number of widget steps tried for kwh and car_km
MaxSteps == 50

\* longest list handed to calculate_longest_streak on its own
MaxInput == 4

\* number of calendar days the two racing sessions can span
MaxRaceDays == 3

(* --------------------------- program constants ------------------------- *)

benchmark_kwh == 100
benchmark_car_km == 100
electricity_cost_per_kwh_inr == 8
car_cost_per_km_inr == 8
diet_savings_vegetarian_inr == 1500
diet_savings_vegan_inr == 2500
DefaultMeals == 90
InputStep == 10

(* ------------------------- datetime.date arithmetic -------------------- *)

Date(y, m, d) == [year |-> y, month |-> m, day |-> d]

IsLeap(y) == (y % 4 = 0) /\ ((y % 100 # 0) \/ (y % 400 = 0))

DaysInMonth(y, m) ==
    IF m = 2 THEN (IF IsLeap(y) THEN 29 ELSE 28)
    ELSE IF m \in {4, 6, 9, 11} THEN 30 ELSE 31

RECURSIVE DaysBeforeMonth(_, _)
DaysBeforeMonth(y, m) ==
    IF m <= 1 THEN 0 ELSE DaysBeforeMonth(y, m - 1) + DaysInMonth(y, m - 1)

DaysBeforeYear(y) ==
    (y - 1) * 365 + ((y - 1) \div 4) - ((y - 1) \div 100) + ((y - 1) \div 400)

\* date.toordinal(): what (a - b).days subtracts
toordinal(dt) == DaysBeforeYear(dt.year) + DaysBeforeMonth(dt.year, dt.month) + dt.day

\* (a - b).days
DaysBetween(a, b) == toordinal(a) - toordinal(b)

\* dt - timedelta(days=1)
MinusOneDay(dt) ==
    IF dt.day > 1 THEN Date(dt.year, dt.month, dt.day - 1)
    ELSE IF dt.month > 1
         THEN Date(dt.year, dt.month - 1, DaysInMonth(dt.year, dt.month - 1))
         ELSE Date(dt.year - 1, 12, 31)

\* the calendar day after dt (the clock moving past midnight)
PlusOneDay(dt) ==
    IF dt.day < DaysInMonth(dt.year, dt.month) THEN Date(dt.year, dt.month, dt.day + 1)
    ELSE IF dt.month < 12 THEN Date(dt.year, dt.month + 1, 1)
         ELSE Date(dt.year + 1, 1, 1)

RECURSIVE PlusDays(_, _)
PlusDays(dt, n) == IF n = 0 THEN dt ELSE PlusDays(PlusOneDay(dt), n - 1)

\* date.__lt__: compares (year, month, day)
DateLess(a, b) ==
    \/ a.year < b.year
    \/ a.year = b.year /\ a.month < b.month
    \/ a.year = b.year /\ a.month = b.month /\ a.day < b.day

(* ------------------------------ str handling --------------------------- *)

Dash == 45
Zero == 48

Pad2(n) == <<Zero + ((n \div 10) % 10), Zero + (n % 10)>>
Pad4(n) == <<Zero + ((n \div 1000) % 10), Zero + ((n \div 100) % 10)>> \o Pad2(n)

\* dt.strftime('%Y-%m-%d')
strftime(dt) == Pad4(dt.year) \o <<Dash>> \o Pad2(dt.month) \o <<Dash>> \o Pad2(dt.day)

RECURSIVE ParseInt(_)
ParseInt(s) ==
    IF s = <<>> THEN 0
    ELSE 10 * ParseInt(SubSeq(s, 1, Len(s) - 1)) + (s[Len(s)] - Zero)

DashAt(s) == {i \in 1..Len(s) : s[i] = Dash}
Min(S) == CHOOSE x \in S : \A y \in S : x <= y
Max(S) == CHOOSE x \in S : \A y \in S : x >= y

\* datetime.strptime(s, '%Y-%m-%d').date(): the three numeric fields between the dashes
strptime(s) ==
    LET i == Min(DashAt(s))
        j == Max(DashAt(s))
    IN  Date(ParseInt(SubSeq(s, 1, i - 1)),
             ParseInt(SubSeq(s, i + 1, j - 1)),
             ParseInt(SubSeq(s, j + 1, Len(s))))

\* str.__lt__: lexicographic on code points, a proper prefix is smaller
RECURSIVE StrLess(_, _)
StrLess(a, b) ==
    IF b = <<>> THEN FALSE
    ELSE IF a = <<>> THEN TRUE
    ELSE IF a[1] # b[1] THEN a[1] < b[1]
    ELSE StrLess(Tail(a), Tail(b))

Range(s) == {s[i] : i \in 1..Len(s)}

\* list.sort() / sorted() on a list of str: stable insertion into ascending order
RECURSIVE InsertSorted(_, _)
InsertSorted(s, x) ==
    IF s = <<>> THEN <<x>>
    ELSE IF StrLess(x, s[1]) THEN <<x>> \o s
    ELSE <<s[1]>> \o InsertSorted(Tail(s), x)

RECURSIVE SortStrs(_)
SortStrs(s) ==
    IF s = <<>> THEN <<>>
    ELSE InsertSorted(SortStrs(SubSeq(s, 1, Len(s) - 1)), s[Len(s)])

\* sorted(list(set(xs))) on str
RECURSIVE SortedStrSet(_)
SortedStrSet(S) ==
    IF S = {} THEN <<>>
    ELSE LET m == CHOOSE x \in S : \A y \in S : x = y \/ StrLess(x, y)
         IN  <<m>> \o SortedStrSet(S \ {m})

\* sorted(list(set(ds))) on datetime.date
RECURSIVE SortedDateSet(_)
SortedDateSet(S) ==
    IF S = {} THEN <<>>
    ELSE LET m == CHOOSE x \in S : \A y \in S : x = y \/ DateLess(x, y)
         IN  <<m>> \o SortedDateSet(S \ {m})

(* ------------------------------ the store ------------------------------ *)

\* What DATA_FILE can hold.  kind is
\*   "missing"      the file does not exist
\*   "unparseable"  text json.load rejects (an empty file, "not json")
\*   "array"        valid JSON that is not an object, e.g. []
\*   "no_key"       an object without logged_dates, e.g. {}
\*   "null_value"   {"logged_dates": null}
\*   "record"       {"logged_dates": [<str>, ...]}, the strings in dates
Store(k, ds) == [kind |-> k, dates |-> ds]

MissingStore == Store("missing", <<>>)
EmptyFile == Store("unparseable", <<>>)
EmptyRecord == Store("record", <<>>)
GarbageStores ==
    {Store(k, <<>>) : k \in {"unparseable", "array", "no_key", "null_value"}}

\* the dates the file holds
PersistedSet(f) == IF f.kind = "record" THEN Range(f.dates) ELSE {}

Returned(ds) == [exc |-> "none", dates |-> ds]
Raised(e) == [exc |-> e, dates |-> <<>>]

\* load_streak_dates reading the key 'dates' instead of 'logged_dates'
load_streak_dates_wrong_key(f) ==
    IF f.kind = "array" THEN Raised("AttributeError") ELSE Returned(<<>>)


load_streak_dates(f) ==
    IF f.kind = "missing" THEN Returned(<<>>)
    ELSE IF f.kind = "unparseable" THEN Returned(<<>>)      \* JSONDecodeError, caught
    ELSE IF f.kind = "array" THEN Raised("AttributeError")  \* list has no .get
    ELSE IF f.kind = "no_key" THEN Returned(<<>>)           \* the default of .get
    ELSE IF f.kind = "null_value" THEN Raised("TypeError")  \* set(None)
    ELSE Returned(SortedStrSet(Range(f.dates)))

\* save_new_log appending without the sort
save_modify_unsorted(dates, date_str) ==
    IF date_str \notin Range(dates) THEN Append(dates, date_str) ELSE dates

\* save_new_log assigning the new date instead of appending it
save_modify_overwrite(dates, date_str) ==
    IF date_str \notin Range(dates) THEN <<date_str>> ELSE dates

\* lines 134-136: append and sort when the date is new
save_modify(dates, date_str) ==
    IF date_str \notin Range(dates) THEN SortStrs(Append(dates, date_str)) ELSE dates

\* lines 138-139: json.dump({'logged_dates': dates}) over the whole file
save_write(dates) == Store("record", dates)

\* the whole call; an exception of the load leaves before the file is opened for writing
save_new_log(f, date_str) ==
    LET l == load_streak_dates(f)
    IN  IF l.exc # "none" THEN [exc |-> l.exc, file |-> f]
        ELSE [exc |-> "none", file |-> save_write(save_modify(l.dates, date_str))]

(* ------------------------------- streaks ------------------------------- *)

MaxOf(a, b) == IF a >= b THEN a ELSE b

\* the scan without the flush after the loop
RECURSIVE ScanStreak_no_flush(_, _, _, _)
ScanStreak_no_flush(unique_dates, i, longest_streak, current_length) ==
    IF i > Len(unique_dates) - 1 THEN longest_streak
    ELSE IF DaysBetween(unique_dates[i + 1], unique_dates[i]) = 1
         THEN ScanStreak_no_flush(unique_dates, i + 1, longest_streak, current_length + 1)
         ELSE ScanStreak_no_flush(unique_dates, i + 1,
                                  MaxOf(longest_streak, current_length), 1)

\* the for loop of calculate_longest_streak with the final flush
RECURSIVE ScanStreak(_, _, _, _)
ScanStreak(unique_dates, i, longest_streak, current_length) ==
    IF i > Len(unique_dates) - 1 THEN MaxOf(longest_streak, current_length)
    ELSE IF DaysBetween(unique_dates[i + 1], unique_dates[i]) = 1
         THEN ScanStreak(unique_dates, i + 1, longest_streak, current_length + 1)
         ELSE ScanStreak(unique_dates, i + 1, MaxOf(longest_streak, current_length), 1)

\* calculate_longest_streak starting current_length at 0
calculate_longest_streak_zero_start(dates_str) ==
    IF dates_str = <<>> THEN 0
    ELSE ScanStreak(SortedDateSet({strptime(d) : d \in Range(dates_str)}), 1, 0, 0)


calculate_longest_streak(dates_str) ==
    IF dates_str = <<>> THEN 0
    ELSE ScanStreak(SortedDateSet({strptime(d) : d \in Range(dates_str)}), 1, 0, 1)

\* the while loop of calculate_current_streak
RECURSIVE CountBack(_, _, _)
CountBack(all_dates, check_date, current_streak) ==
    IF check_date \in all_dates
    THEN CountBack(all_dates, MinusOneDay(check_date), current_streak + 1)
    ELSE current_streak

StreakPair(e, c, l) == [exc |-> e, cur |-> c, longest |-> l]

\* calculate_current_streak without the fallback to yesterday
calculate_current_streak_no_yesterday(f, now) ==
    LET l == load_streak_dates(f)
        all_dates == {strptime(d) : d \in Range(l.dates)}
    IN  IF l.exc # "none" THEN StreakPair(l.exc, 0, 0)
        ELSE IF l.dates = <<>> THEN StreakPair("none", 0, 0)
        ELSE StreakPair("none", CountBack(all_dates, now, 0),
                        calculate_longest_streak(l.dates))


calculate_current_streak(f, now) ==
    LET l == load_streak_dates(f)
        logged_dates_str == l.dates
        all_dates == {strptime(d) : d \in Range(logged_dates_str)}
        yesterday == MinusOneDay(now)
    IN  IF l.exc # "none" THEN StreakPair(l.exc, 0, 0)
        ELSE IF logged_dates_str = <<>> THEN StreakPair("none", 0, 0)
        ELSE IF now \in all_dates
             THEN StreakPair("none", CountBack(all_dates, now, 0),
                             calculate_longest_streak(logged_dates_str))
        ELSE IF yesterday \in all_dates
             THEN StreakPair("none", CountBack(all_dates, yesterday, 0),
                             calculate_longest_streak(logged_dates_str))
        ELSE StreakPair("none", 0, calculate_longest_streak(logged_dates_str))

(* ------------------------------ calculators ---------------------------- *)

\* per-meal factor in tenths of a kg (0.5, 1.2, 2.5, 2.0)
DietFactorTenths(diet_type) ==
    IF diet_type = "vegan" THEN 5
    ELSE IF diet_type = "vegetarian" THEN 12
    ELSE IF diet_type = "omniverous" THEN 25
    ELSE 20

\* result in tenths of a kg CO2e
calculate_diet_footprint(diet_type, meals_per_month) ==
    meals_per_month * DietFactorTenths(diet_type)

Savings(t, e, tr, d) ==
    [TotalSavings |-> t, EnergySavings |-> e, TravelSavings |-> tr, DietSavings |-> d]

\* calculate_financial_savings without the max(0, ...) clamps
calculate_financial_savings_unclamped(kwh, car_km, diet_type) ==
    LET energy_saving == (kwh - benchmark_kwh) * electricity_cost_per_kwh_inr
        travel_saving == (car_km - benchmark_car_km) * car_cost_per_km_inr
        diet_saving == IF diet_type = "vegetarian" THEN diet_savings_vegetarian_inr
                       ELSE IF diet_type = "vegan" THEN diet_savings_vegan_inr
                       ELSE 0
    IN  Savings(energy_saving + travel_saving + diet_saving,
                energy_saving, travel_saving, diet_saving)


calculate_financial_savings(kwh, car_km, diet_type) ==
    LET user_energy_cost == kwh * electricity_cost_per_kwh_inr
        benchmark_energy_cost == benchmark_kwh * electricity_cost_per_kwh_inr
        energy_saving == MaxOf(0, user_energy_cost - benchmark_energy_cost)
        user_travel_cost == car_km * car_cost_per_km_inr
        benchmark_travel_cost == benchmark_car_km * car_cost_per_km_inr
        travel_saving == MaxOf(0, user_travel_cost - benchmark_travel_cost)
        diet_saving == IF diet_type = "vegetarian" THEN diet_savings_vegetarian_inr
                       ELSE IF diet_type = "vegan" THEN diet_savings_vegan_inr
                       ELSE 0
    IN  Savings(energy_saving + travel_saving + diet_saving,
                energy_saving, travel_saving, diet_saving)

(* ------------------------------- the state ----------------------------- *)

VARIABLES
    file,        \* the content of DATA_FILE
    today,       \* datetime.now().date()
    ret,         \* the last completed call of the single session: its argument, the
                 \* store and the clock it saw, and what it returned
    sess,        \* the position of each concurrent session inside save_new_log
    lastWriter,  \* the session whose json.dump reached the file last
    calc         \* the last call of a pure function and its result

vars == <<file, today, ret, sess, lastWriter, calc>>

StartDay == Date(2023, 12, 31)
Days == {PlusDays(StartDay, i) : i \in 0..(MaxDays - 1)}
DateStrs == {strftime(d) : d \in Days}

SeqsUpTo(S, n) == UNION {[1..k -> S] : k \in 0..n}

Sessions == {"s1", "s2"}

NoStr == <<>>
NoRet ==
    [op |-> "none", arg |-> NoStr, exc |-> "none", dates |-> <<>>,
     cur |-> 0, longest |-> 0, before |-> {}, now |-> StartDay]
IdleSession == [pc |-> "idle", arg |-> NoStr, dates |-> <<>>, loaded |-> {}]
NoSavings == Savings(0, 0, 0, 0)
NoCalc ==
    [fn |-> "none", strs |-> <<>>, diet |-> "", meals |-> 0, kwh |-> 0, car_km |-> 0,
     done |-> FALSE, result |-> 0, savings |-> NoSavings]

Quiet ==
    /\ ret = NoRet
    /\ sess = [s \in Sessions |-> IdleSession]
    /\ lastWriter = "none"
    /\ calc = NoCalc

\* a missing or empty store, the clock at StartDay
Init ==
    /\ file \in {MissingStore, EmptyFile, EmptyRecord}
    /\ today = StartDay
    /\ Quiet

(* ---------------------------- single session --------------------------- *)

SaveNewLog(date_str) ==
    LET r == save_new_log(file, date_str)
    IN  /\ file' = r.file
        /\ ret' = [op |-> "save", arg |-> date_str, exc |-> r.exc, dates |-> <<>>,
                   cur |-> 0, longest |-> 0, before |-> PersistedSet(file),
                   now |-> today]
        /\ UNCHANGED <<today, sess, lastWriter, calc>>

\* log_action: save today's date, then st.rerun() renders the streak again
LogAction ==
    LET today_str == strftime(today)
        r == save_new_log(file, today_str)
        k == calculate_current_streak(r.file, today)
    IN  /\ file' = r.file
        /\ ret' = [op |-> "log", arg |-> today_str,
                   exc |-> IF r.exc # "none" THEN r.exc ELSE k.exc,
                   dates |-> <<>>, cur |-> k.cur, longest |-> k.longest,
                   before |-> PersistedSet(file),
                   now |-> today]
        /\ UNCHANGED <<today, sess, lastWriter, calc>>

LoadStreakDates ==
    LET l == load_streak_dates(file)
    IN  /\ ret' = [op |-> "load", arg |-> NoStr, exc |-> l.exc, dates |-> l.dates,
                   cur |-> 0, longest |-> 0, before |-> PersistedSet(file),
                   now |-> today]
        /\ UNCHANGED <<file, today, sess, lastWriter, calc>>

CalculateCurrentStreak ==
    LET k == calculate_current_streak(file, today)
    IN  /\ ret' = [op |-> "streak", arg |-> NoStr, exc |-> k.exc, dates |-> <<>>,
                   cur |-> k.cur, longest |-> k.longest, before |-> PersistedSet(file),
                   now |-> today]
        /\ UNCHANGED <<file, today, sess, lastWriter, calc>>

\* midnight passes
AdvanceDay ==
    /\ DaysBetween(today, StartDay) < MaxDays - 1
    /\ today' = PlusOneDay(today)
    /\ UNCHANGED <<file, ret, sess, lastWriter, calc>>

Next ==
    \/ \E d \in DateStrs : SaveNewLog(d)
    \/ LogAction
    \/ LoadStreakDates
    \/ CalculateCurrentStreak
    \/ AdvanceDay

Spec == Init /\ [][Next]_vars

\* the application as the user drives it: the log button, the page render, the clock
NextApp ==
    \/ LogAction
    \/ CalculateCurrentStreak
    \/ AdvanceDay

SpecApp == Init /\ [][NextApp]_vars

\* every store content, written by this program or not
AnyStores ==
    {MissingStore} \cup GarbageStores
        \cup {Store("record", ds) : ds \in SeqsUpTo(DateStrs, MaxLen)}

InitStore ==
    /\ file \in AnyStores
    /\ today = StartDay
    /\ Quiet

SpecStore == InitStore /\ [][Next]_vars

(* ----------------------------- pure functions -------------------------- *)

RECURSIVE Digits(_)
Digits(n) == IF n < 10 THEN <<Zero + n>> ELSE Digits(n \div 10) \o <<Zero + (n % 10)>>

\* a date string without zero padding, which strptime reads as well ("2024-1-3")
Unpadded(dt) == Pad4(dt.year) \o <<Dash>> \o Digits(dt.month) \o <<Dash>> \o Digits(dt.day)

\* date strings handed to calculate_longest_streak: a year end, a leap day, a far day
InputStrs ==
    {strftime(dt) : dt \in {Date(2023, 12, 31), Date(2024, 1, 1), Date(2024, 1, 2),
                            Date(2024, 1, 3), Date(2024, 1, 10), Date(2024, 2, 28),
                            Date(2024, 2, 29), Date(2024, 3, 1)}}
        \cup {Unpadded(Date(2024, 1, 3))}

DietStrings == {"vegan", "vegetarian", "omniverous", "omnivorous", "other", "keto", ""}
MealCounts == (0..MaxMeals) \cup {DefaultMeals}
UsageValues == {InputStep * i : i \in 0..MaxSteps}

\* a call about to be made: the function and its arguments
Pending(fn, strs, diet, meals, kwh, car_km) ==
    [NoCalc EXCEPT !.fn = fn, !.strs = strs, !.diet = diet, !.meals = meals,
                   !.kwh = kwh, !.car_km = car_km]

PendingCalls ==
    {Pending("longest", strs, "", 0, 0, 0) : strs \in SeqsUpTo(InputStrs, MaxInput)}
        \cup {Pending("diet", <<>>, diet, meals, 0, 0) :
                  diet \in DietStrings, meals \in MealCounts}
        \cup {Pending("savings", <<>>, diet, 0, kwh, car_km) :
                  diet \in DietStrings, kwh \in UsageValues, car_km \in UsageValues}

CallLongestStreak ==
    /\ calc.fn = "longest" /\ ~calc.done
    /\ calc' = [calc EXCEPT !.done = TRUE, !.result = calculate_longest_streak(calc.strs)]
    /\ UNCHANGED <<file, today, ret, sess, lastWriter>>

CallDietFootprint ==
    /\ calc.fn = "diet" /\ ~calc.done
    /\ calc' = [calc EXCEPT !.done = TRUE,
                            !.result = calculate_diet_footprint(calc.diet, calc.meals)]
    /\ UNCHANGED <<file, today, ret, sess, lastWriter>>

CallFinancialSavings ==
    /\ calc.fn = "savings" /\ ~calc.done
    /\ calc' = [calc EXCEPT !.done = TRUE,
                            !.savings = calculate_financial_savings(calc.kwh, calc.car_km,
                                                                    calc.diet)]
    /\ UNCHANGED <<file, today, ret, sess, lastWriter>>

InitCalc ==
    /\ file = MissingStore
    /\ today = StartDay
    /\ ret = NoRet
    /\ sess = [s \in Sessions |-> IdleSession]
    /\ lastWriter = "none"
    /\ calc \in PendingCalls

NextCalc ==
    \/ CallLongestStreak
    \/ CallDietFootprint
    \/ CallFinancialSavings

SpecCalc == InitCalc /\ [][NextCalc]_vars

(* --------------------------- concurrent sessions ----------------------- *)

\* log_action up to line 133 of save_new_log: today's string, then the load
SessLoad(s) ==
    LET l == load_streak_dates(file)
    IN  /\ sess[s].pc = "idle"
        /\ l.exc = "none"
        /\ sess' = [sess EXCEPT ![s] = [pc |-> "loaded", arg |-> strftime(today),
                                        dates |-> l.dates, loaded |-> Range(l.dates)]]
        /\ UNCHANGED <<file, today, ret, lastWriter, calc>>

\* the write of a save_new_log that loads again under a lock before it dumps
SessWrite_atomic(s) ==
    /\ sess[s].pc = "loaded"
    /\ file' = save_new_log(file, sess[s].arg).file
    /\ sess' = [sess EXCEPT ![s].pc = "done", ![s].dates = file'.dates]
    /\ lastWriter' = s
    /\ UNCHANGED <<today, ret, calc>>

\* lines 134-139: the append on the local list, then the dump over the file
SessWrite(s) ==
    LET dates == save_modify(sess[s].dates, sess[s].arg)
    IN  /\ sess[s].pc = "loaded"
        /\ file' = save_write(dates)
        /\ sess' = [sess EXCEPT ![s].pc = "done", ![s].dates = dates]
        /\ lastWriter' = s
        /\ UNCHANGED <<today, ret, calc>>

\* the handler is over; the session can log again
SessReturn(s) ==
    /\ sess[s].pc = "done"
    /\ lastWriter # s
    /\ sess' = [sess EXCEPT ![s] = IdleSession]
    /\ UNCHANGED <<file, today, ret, lastWriter, calc>>

RaceAdvanceDay ==
    /\ DaysBetween(today, StartDay) < MaxRaceDays - 1
    /\ today' = PlusOneDay(today)
    /\ UNCHANGED <<file, ret, sess, lastWriter, calc>>

NextRace ==
    \/ \E s \in Sessions : SessLoad(s)
    \/ \E s \in Sessions : SessWrite(s)
    \/ \E s \in Sessions : SessReturn(s)
    \/ RaceAdvanceDay

SpecRace == Init /\ [][NextRace]_vars

(* ------------------------------ properties ----------------------------- *)

DayStr(y, m, d) == strftime(Date(y, m, d))

\* the stored dates as day numbers
StoredDays(f) == {toordinal(strptime(d)) : d \in PersistedSet(f)}

\* the number of consecutive days of S counted backward from day n to the first missing day
RunBack(S, n) ==
    CHOOSE k \in 0..Cardinality(S) : (\A i \in 0..(k - 1) : n - i \in S) /\ (n - k \notin S)

LongestRunBack(S) == Max({0} \cup {RunBack(S, n) : n \in S})

\* the number of calendar-consecutive dates of D from dt on
RECURSIVE RunFrom(_, _)
RunFrom(D, dt) == IF dt \in D THEN 1 + RunFrom(D, PlusOneDay(dt)) ELSE 0

LongestRun(D) == Max({0} \cup {RunFrom(D, dt) : dt \in D})

IsSortedStrict(s) == \A i \in 1..(Len(s) - 1) : StrLess(s[i], s[i + 1])

\* C1: calculate_current_streak counts the consecutive stored days backward from today
\* when today is stored, from yesterday when only yesterday is stored, and returns 0
\* with the longest streak when neither is stored; today = 2024-01-05 gives (2, 2) on
\* {2024-01-03, 2024-01-04} and (0, 1) on {2024-01-01}.
C1_CurrentStreak ==
    ret.op = "streak" =>
        LET S == StoredDays(file)
            t == toordinal(ret.now)
        IN  /\ ret.exc = "none"
            /\ t \in S => ret.cur = RunBack(S, t)
            /\ (t \notin S /\ t - 1 \in S) => ret.cur = RunBack(S, t - 1)
            /\ (t \notin S /\ t - 1 \notin S) =>
                   (ret.cur = 0 /\ ret.longest = LongestRunBack(S))
            /\ (ret.now = Date(2024, 1, 5)
                  /\ PersistedSet(file) = {DayStr(2024, 1, 3), DayStr(2024, 1, 4)})
                   => (ret.cur = 2 /\ ret.longest = 2)
            /\ (ret.now = Date(2024, 1, 5) /\ PersistedSet(file) = {DayStr(2024, 1, 1)})
                   => (ret.cur = 0 /\ ret.longest = 1)

C1_Witness ==
    /\ ret.op = "streak"
    /\ ret.now = Date(2024, 1, 5)
    /\ PersistedSet(file) = {DayStr(2024, 1, 3), DayStr(2024, 1, 4)}
    /\ ret.cur = 2
    /\ ret.longest = 2

\* C2: calculate_longest_streak returns the length of the longest run of
\* calendar-consecutive dates of its input, whatever the order and the duplicates,
\* counts the final run, and returns 0 on empty input;
\* {2024-01-01, 2024-01-02, 2024-01-03, 2024-01-10} gives 3.
C2_LongestStreak ==
    (calc.fn = "longest" /\ calc.done) =>
        /\ calc.result = LongestRun({strptime(d) : d \in Range(calc.strs)})
        /\ calc.strs = <<>> => calc.result = 0
        /\ Range(calc.strs) = {DayStr(2024, 1, 1), DayStr(2024, 1, 2),
                               DayStr(2024, 1, 3), DayStr(2024, 1, 10)}
               => calc.result = 3

C2_Witness ==
    /\ calc.fn = "longest"
    /\ calc.done
    /\ calc.strs = <<DayStr(2024, 1, 10), DayStr(2024, 1, 2),
                     DayStr(2024, 1, 1), DayStr(2024, 1, 3)>>
    /\ calc.result = 3

\* C3: save_new_log is idempotent: saving a date twice leaves the persisted set that
\* saving it once leaves, and saving a date already present leaves the set unchanged.
C3_SaveIdempotent ==
    /\ \A d \in DateStrs :
           LET once == save_new_log(file, d).file
               twice == save_new_log(once, d).file
           IN  /\ PersistedSet(twice) = PersistedSet(once)
               /\ d \in PersistedSet(file) => PersistedSet(once) = PersistedSet(file)
    /\ (ret.op = "save" /\ ret.arg \in ret.before) => PersistedSet(file) = ret.before

C3_Witness ==
    /\ ret.op = "save"
    /\ ret.exc = "none"
    /\ ret.arg \in ret.before
    /\ Cardinality(ret.before) >= 2
    /\ PersistedSet(file) = ret.before

\* C4: load_streak_dates on a missing store or on garbage content of any kind returns
\* an empty sequence and raises nothing.
C4_LoadNeverRaises ==
    (ret.op = "load" /\ file.kind # "record") => (ret.exc = "none" /\ ret.dates = <<>>)

\* C5: after save_new_log calls on a missing or empty store the persisted sequence is
\* sorted ascending without duplicates, and load_streak_dates returns the dates saved.
C5_SortedRoundTrip ==
    /\ file.kind = "record" =>
           /\ IsSortedStrict(file.dates)
           /\ load_streak_dates(file) = Returned(file.dates)
    /\ (ret.op \in {"save", "log"}) =>
           /\ file.kind = "record"
           /\ Range(load_streak_dates(file).dates) = ret.before \cup {ret.arg}

C5_Witness ==
    /\ ret.op = "save"
    /\ ret.arg \notin ret.before
    /\ Len(file.dates) >= 3
    /\ file.dates[1] = ret.arg
    /\ load_streak_dates(file).dates = file.dates

\* C6: the persisted set only grows: no step of save_new_log, load_streak_dates or
\* calculate_current_streak removes a date, and the two reads leave the store as it is.
C6_AppendOnly ==
    [][/\ PersistedSet(file) \subseteq PersistedSet(file')
       /\ (ret'.op \in {"load", "streak"}) => file' = file]_vars

C6_Witness ==
    /\ ret.op = "save"
    /\ ret.arg \notin ret.before
    /\ Cardinality(ret.before) >= 2
    /\ PersistedSet(file) = ret.before \cup {ret.arg}

\* the per-meal factors of the documentation, in tenths of a kg
DocumentedFactorTenths(diet_type) ==
    IF diet_type = "vegan" THEN 5
    ELSE IF diet_type = "vegetarian" THEN 12
    ELSE IF diet_type = "omnivorous" THEN 25
    ELSE 20

\* C7: calculate_diet_footprint returns the meal count times 0.5 for vegan, 1.2 for
\* vegetarian, 2.5 for omnivorous and 2.0 for other; every unrecognized diet string
\* gives the result of 'other'; 90 meals give 45, 108, 225 and 180.
C7_DietFootprint ==
    (calc.fn = "diet" /\ calc.done) =>
        /\ calc.result = calc.meals * DocumentedFactorTenths(calc.diet)
        /\ (calc.diet = "omnivorous" /\ calc.meals = DefaultMeals) => calc.result = 2250

\* C8: calculate_financial_savings gives max(0, kwh*8 - 800), max(0, car_km*8 - 800),
\* 1500 / 2500 / 0 by diet and their sum; no category is negative and usage at or under
\* the benchmark gives 0; kwh=250, car_km=500, vegetarian gives 1200, 3200, 1500, 5900.
C8_FinancialSavings ==
    (calc.fn = "savings" /\ calc.done) =>
        LET v == calc.savings
        IN  /\ v.EnergySavings = (IF calc.kwh * 8 > 800 THEN calc.kwh * 8 - 800 ELSE 0)
            /\ v.TravelSavings = (IF calc.car_km * 8 > 800 THEN calc.car_km * 8 - 800 ELSE 0)
            /\ v.DietSavings = (IF calc.diet = "vegetarian" THEN 1500
                                ELSE IF calc.diet = "vegan" THEN 2500 ELSE 0)
            /\ v.TotalSavings = v.EnergySavings + v.TravelSavings + v.DietSavings
            /\ v.EnergySavings >= 0 /\ v.TravelSavings >= 0 /\ v.DietSavings >= 0
            /\ calc.kwh <= 100 => v.EnergySavings = 0
            /\ calc.car_km <= 100 => v.TravelSavings = 0
            /\ (calc.kwh = 250 /\ calc.car_km = 500 /\ calc.diet = "vegetarian")
                   => v = Savings(5900, 1200, 3200, 1500)

C8_Witness ==
    /\ calc.fn = "savings"
    /\ calc.done
    /\ calc.kwh = 250 /\ calc.car_km = 500 /\ calc.diet = "vegetarian"
    /\ calc.savings = Savings(5900, 1200, 3200, 1500)

C10_StreakBounds ==
    /\ LET k == calculate_current_streak(file, today)
       IN  /\ k.exc = "none"
           /\ 0 <= k.cur /\ k.cur <= k.longest
           /\ (k.cur = 0 /\ k.longest = 0) <=> (PersistedSet(file) = {})
    /\ (ret.op \in {"log", "streak"}) => (0 <= ret.cur /\ ret.cur <= ret.longest)

C10_Witness ==
    /\ ret.op = "streak"
    /\ PersistedSet(file) # {}
    /\ ret.cur = 0
    /\ ret.longest >= 2

====
